---- MODULE Spec2Model ----
(***************************************************************************)
(* A model of the users CRUD server of src/lib.rs: schema bootstrap, the   *)
(* accept loop, the one-read dispatcher, the three handlers and the users  *)
(* table they act on.                                                      *)
(*                                                                         *)
(* Request text is a sequence of tokens.  Every token is a piece of text   *)
(* that the code's string operations never cut: the separators they look   *)
(* for ("/", white space, the blank line "\r\n\r\n") are tokens of their   *)
(* own, so starts_with is a prefix test on tokens and split is a split on  *)
(* tokens.                                                                 *)
(***************************************************************************)
EXTENDS Integers, Sequences, FiniteSets, TLC

VARIABLES
    pc,           \* position of the process: start, bind, accept, handle, handled, exited, panicked
    boots,        \* calls of set_database in this run of the process
    bound,        \* the listener is bound in this run
    served,       \* connections given to handle_client in this run
    tableExists,  \* database: the users table exists
    rows,         \* database: the rows of users
    nextId,       \* database: next value of the SERIAL sequence of users.id
    assigned,     \* history: every id the sequence has handed out
    sent,         \* the bytes the client of the current connection sends
    env,          \* what the environment does to this connection: [read, db, write]
    response,     \* what was written to the current connection (NoResponse: nothing)
    fx,           \* what handle_client did for the current connection: its reads, the
                  \* route it took, what the handler returned or that it panicked,
                  \* connections opened, statements sent, rows affected, writes
    pre           \* history: the table when handle_client was entered

vars == <<pc, boots, bound, served, tableExists, rows, nextId, assigned,
          sent, env, response, fx, pre>>

(***************************************************************************)
(* Bounds.                                                                 *)
(***************************************************************************)
\* Ids the SERIAL sequence may hand out before creates are cut off.
MaxId == 2

(***************************************************************************)
(* Program constants.                                                      *)
(***************************************************************************)
OK_RESPONSE == "HTTP/1.1 200 OK\r\nContent-Type: application/json\r\n\r\n"
NOT_FOUND == "HTTP/1.1 404 NOT FOUND\r\n\r\n"
INTERNAL_SERVER_ERROR == "HTTP/1.1 500 INTERNAL SERVER ERROR\r\n\r\n"
\* let mut buffer = [0; 1024]
BUFFER == 1024

(***************************************************************************)
(* Tokens.                                                                 *)
(***************************************************************************)
SP == " "
BL == "\r\n\r\n"
\* A proper, non-empty prefix of the blank line: white space, no separator.
CRLF == "\r\n"
SLASH == "/"
\* A header line as long as the whole read buffer.
PAD == "X-Pad: ..."
\* What is left of a token that the end of the buffer cuts.
CUT == "<cut>"
\* A byte that is no UTF-8, and what from_utf8_lossy puts in its place.
BADBYTE == "<0xFF>"
REPLACEMENT == "<U+FFFD>"
JUNK == "foo"

NameTok == [a |-> "\"name\":\"a\"", b |-> "\"name\":\"b\""]
EmailTok == [x |-> "\"email\":\"x\"", y |-> "\"email\":\"y\""]
IdTok == "\"id\":7"
NameToks == {NameTok[v] : v \in DOMAIN NameTok}
EmailToks == {EmailTok[v] : v \in DOMAIN EmailTok}
FieldToks == NameToks \cup EmailToks \cup {IdTok}
NameOf(t) == CHOOSE v \in DOMAIN NameTok : NameTok[v] = t
EmailOf(t) == CHOOSE v \in DOMAIN EmailTok : EmailTok[v] = t

IsWs(t) == t \in {SP, BL, CRLF}

\* Decimal numerals of the ids the model uses, and one past them.
IdNumerals == {ToString(k) : k \in 1..(MaxId + 1)}
NumeralValue(t) == CHOOSE k \in 1..(MaxId + 1) : ToString(k) = t

Width(t) == IF t = PAD THEN BUFFER ELSE Len(t)

(***************************************************************************)
(* The string operations of the standard library that the code uses.       *)
(***************************************************************************)
\* str::starts_with
StartsWith(s, p) == Len(s) >= Len(p) /\ SubSeq(s, 1, Len(p)) = p

\* Index of the first token of s equal to sep, 0 when there is none.
Find(s, sep) ==
    IF \E i \in 1..Len(s) : s[i] = sep
    THEN CHOOSE i \in 1..Len(s) : s[i] = sep /\ \A j \in 1..(i - 1) : s[j] # sep
    ELSE 0

\* str::split(sep): the pieces between the separators, at least one piece.
RECURSIVE Split(_, _)
Split(s, sep) ==
    LET i == Find(s, sep)
    IN  IF i = 0 THEN <<s>>
        ELSE <<SubSeq(s, 1, i - 1)>> \o Split(SubSeq(s, i + 1, Len(s)), sep)

\* Iterator::nth(n).unwrap_or_default(): the piece at index n from 0, or "".
NthOrDefault(pieces, n) == IF Len(pieces) > n THEN pieces[n + 1] ELSE <<>>

\* Iterator::last().unwrap_or_default()
LastOrDefault(pieces) == IF Len(pieces) > 0 THEN pieces[Len(pieces)] ELSE <<>>

\* str::split_whitespace().next().unwrap_or_default(): the first run of
\* tokens that are no white space, or "".
RECURSIVE FirstWord(_)
FirstWord(s) ==
    IF s = <<>> THEN <<>>
    ELSE IF IsWs(Head(s)) THEN FirstWord(Tail(s))
    ELSE LET stop == IF \E i \in 1..Len(s) : IsWs(s[i])
                     THEN CHOOSE i \in 1..Len(s) :
                              IsWs(s[i]) /\ \A j \in 1..(i - 1) : ~IsWs(s[j])
                     ELSE Len(s) + 1
         IN  SubSeq(s, 1, stop - 1)

\* str::parse::<i32>(): a single decimal numeral in range, nothing else.
ParseI32(word) ==
    IF Len(word) = 1 /\ word[1] \in IdNumerals
    THEN [ok |-> TRUE, id |-> NumeralValue(word[1])]
    ELSE [ok |-> FALSE, id |-> 0]

\* String::from_utf8_lossy: bytes that are no UTF-8 become U+FFFD.
FromUtf8Lossy(s) == [i \in 1..Len(s) |-> IF s[i] = BADBYTE THEN REPLACEMENT ELSE s[i]]

\* What a token turns into when only its first bytes arrive.
Fragment(t) == IF t = BL THEN CRLF ELSE CUT

\* stream.read(&mut buffer): the first `room` bytes of what was sent (all
\* that was sent has arrived when the read is made).
RECURSIVE ReadInto(_, _)
ReadInto(s, room) ==
    IF s = <<>> \/ room = 0 THEN <<>>
    ELSE IF Width(Head(s)) <= room
         THEN <<Head(s)>> \o ReadInto(Tail(s), room - Width(Head(s)))
         ELSE <<Fragment(Head(s))>>

(***************************************************************************)
(* serde_json::from_str::<User>: white space between tokens is skipped;    *)
(* the text must be one object whose members are known fields; name and    *)
(* email are required, id is optional, and a field given twice is an error.*)
(***************************************************************************)
SkipWs(s) == SelectSeq(s, LAMBDA t : ~IsWs(t))

Count(s, S) == Cardinality({i \in 1..Len(s) : s[i] \in S})

FromStrUser(text) ==
    LET t == SkipWs(text)
        members == SubSeq(t, 2, Len(t) - 1)
        good == /\ Len(t) >= 2
                /\ t[1] = "{"
                /\ t[Len(t)] = "}"
                /\ \A i \in 1..Len(members) : members[i] \in FieldToks
                /\ Count(members, NameToks) = 1
                /\ Count(members, EmailToks) = 1
                /\ Count(members, {IdTok}) <= 1
    IN  IF good
        THEN [ok |-> TRUE,
              name |-> NameOf(members[CHOOSE i \in 1..Len(members) : members[i] \in NameToks]),
              email |-> EmailOf(members[CHOOSE i \in 1..Len(members) : members[i] \in EmailToks])]
        ELSE [ok |-> FALSE, name |-> "", email |-> ""]

(***************************************************************************)
(* The parsing helpers of the server.                                      *)
(***************************************************************************)
get_id(request) == FirstWord(NthOrDefault(Split(request, SLASH), 2))

get_user_request_body(request) == FromStrUser(LastOrDefault(Split(request, BL)))

(***************************************************************************)
(* The users table and the statements the handlers send.                   *)
(***************************************************************************)
Ids(table) == {r.id : r \in table}

\* INSERT INTO users (name, email) VALUES ($1, $2): id from the sequence.
ExecInsert(table, seq, name, email) ==
    table \cup {[id |-> seq, name |-> name, email |-> email]}

\* The update without its WHERE clause.
ExecUpdate_NoWhere(table, name, email, id) ==
    {[r EXCEPT !.name = name, !.email = email] : r \in table}

\* UPDATE users SET name = $1, email = $2 WHERE id = $3
ExecUpdate(table, name, email, id) ==
    {IF r.id = id THEN [r EXCEPT !.name = name, !.email = email] ELSE r : r \in table}

\* DELETE FROM users WHERE id = $1
ExecDelete(table, id) == {r \in table : r.id # id}

\* The number of rows a DELETE ... WHERE id = $1 affects.
RowsAffected(table, id) == Cardinality({r \in table : r.id = id})

\* pg::Connection::open and Connection::execute, by the state of the
\* database: "down" refuses connections, "failing" accepts them and fails
\* the statement, "up" does both.
OpenOk(db) == db.state # "down"
ExecuteOk(db) == db.state = "up"

(***************************************************************************)
(* The handlers.  A handler gets the request text and the database and     *)
(* gives what it did: the (status line, content) it returns or the panic   *)
(* it ends in, the table and sequence afterwards, the connections it       *)
(* opened, the statements it sent, and the affected-row count it read.     *)
(***************************************************************************)
Returns(status, content, table, seq, opens, stmts, affected) ==
    [panic |-> FALSE, status |-> status, content |-> content, rows |-> table,
     nextId |-> seq, opens |-> opens, stmts |-> stmts, affected |-> affected]

\* Result::unwrap on an Err
Panics(table, seq, opens, stmts) ==
    [panic |-> TRUE, status |-> "", content |-> "", rows |-> table,
     nextId |-> seq, opens |-> opens, stmts |-> stmts, affected |-> -1]

\* The scrutinee is a tuple: the body is parsed and the connection is
\* opened before the match looks at either.
handle_post_request(request, db) ==
    LET user == get_user_request_body(request)
    IN  IF user.ok /\ OpenOk(db)
        THEN IF ExecuteOk(db)
             THEN Returns(OK_RESPONSE, "User created",
                          ExecInsert(db.rows, db.nextId, user.name, user.email),
                          db.nextId + 1, 1, <<"INSERT">>, 1)
             ELSE Panics(db.rows, db.nextId, 1, <<"INSERT">>)
        ELSE Returns(INTERNAL_SERVER_ERROR, "Error", db.rows, db.nextId, 1, <<>>, -1)

handle_put_request(request, db) ==
    LET id == ParseI32(get_id(request))
        user == get_user_request_body(request)
    IN  IF id.ok /\ user.ok /\ OpenOk(db)
        THEN IF ExecuteOk(db)
             THEN Returns(OK_RESPONSE, "User updated",
                          ExecUpdate(db.rows, user.name, user.email, id.id),
                          db.nextId, 1, <<"UPDATE">>, RowsAffected(db.rows, id.id))
             ELSE Panics(db.rows, db.nextId, 1, <<"UPDATE">>)
        ELSE Returns(INTERNAL_SERVER_ERROR, "Error", db.rows, db.nextId, 1, <<>>, -1)

\* The delete handler without its look at rows_affected.
handle_delete_request_Unchecked(request, db) ==
    LET id == ParseI32(get_id(request))
    IN  IF id.ok /\ OpenOk(db)
        THEN IF ExecuteOk(db)
             THEN Returns(OK_RESPONSE, "User deleted", ExecDelete(db.rows, id.id),
                          db.nextId, 1, <<"DELETE">>, RowsAffected(db.rows, id.id))
             ELSE Panics(db.rows, db.nextId, 1, <<"DELETE">>)
        ELSE Returns(INTERNAL_SERVER_ERROR, "Error", db.rows, db.nextId, 1, <<>>, -1)

handle_delete_request(request, db) ==
    LET id == ParseI32(get_id(request))
    IN  IF id.ok /\ OpenOk(db)
        THEN IF ExecuteOk(db)
             THEN LET rows_affected == RowsAffected(db.rows, id.id)
                      after == ExecDelete(db.rows, id.id)
                  IN  IF rows_affected = 0
                      THEN Returns(NOT_FOUND, "User not found", after, db.nextId,
                                   1, <<"DELETE">>, rows_affected)
                      ELSE Returns(OK_RESPONSE, "User deleted", after, db.nextId,
                                   1, <<"DELETE">>, rows_affected)
             ELSE Panics(db.rows, db.nextId, 1, <<"DELETE">>)
        ELSE Returns(INTERNAL_SERVER_ERROR, "Error", db.rows, db.nextId, 1, <<>>, -1)

(***************************************************************************)
(* The dispatcher: the first literal prefix that matches decides.          *)
(***************************************************************************)
PostPrefix == <<"POST", SP, SLASH, "users">>
PutPrefix == <<"PUT", SP, SLASH, "users", SLASH>>
DeletePrefix == <<"DELETE", SP, SLASH, "users", SLASH>>

\* The dispatcher with the update prefix "PUT /users", its last slash lost.
Route_ShortPutPrefix(request) ==
    IF StartsWith(request, PostPrefix) THEN "post"
    ELSE IF StartsWith(request, SubSeq(PutPrefix, 1, 4)) THEN "put"
    ELSE IF StartsWith(request, DeletePrefix) THEN "delete"
    ELSE "none"

Route(request) ==
    IF StartsWith(request, PostPrefix) THEN "post"
    ELSE IF StartsWith(request, PutPrefix) THEN "put"
    ELSE IF StartsWith(request, DeletePrefix) THEN "delete"
    ELSE "none"

Dispatch(request, db) ==
    LET route == Route(request)
    IN  IF route = "post" THEN handle_post_request(request, db)
        ELSE IF route = "put" THEN handle_put_request(request, db)
        ELSE IF route = "delete" THEN handle_delete_request(request, db)
        ELSE Returns(NOT_FOUND, "404 Not Found", db.rows, db.nextId, 0, <<>>, -1)

\* The request text handle_client builds from one read of what was sent.
RequestText(bytes) == FromUtf8Lossy(ReadInto(bytes, BUFFER))

(***************************************************************************)
(* The requests clients send.                                              *)
(***************************************************************************)
Version == <<SP, "HTTP", SLASH, "1.1">>

\* The people clients write about, and the JSON members that describe one.
People == {[name |-> "a", email |-> "x"], [name |-> "b", email |-> "y"]}
FieldsOf(p) == {NameTok[p.name], EmailTok[p.email], IdTok}

\* Member lists of a JSON object about one person: any two members (one
\* may be missing, or given twice), and all three in any order.
FieldSeqs2 == UNION {UNION {[1..n -> FieldsOf(p)] : n \in 0..2} : p \in People}
FieldSeqs3 ==
    UNION {{fs \in [1..3 -> FieldsOf(p)] :
               Count(fs, NameToks) = 1 /\ Count(fs, EmailToks) = 1 /\ Count(fs, {IdTok}) = 1}
           : p \in People}
Object(fs) == <<"{">> \o fs \o <<"}">>

\* s with the blank line put in before position i.
WithBlankLine(s, i) == SubSeq(s, 1, i - 1) \o <<BL>> \o SubSeq(s, i, Len(s))

Bodies ==
    {Object(fs) : fs \in FieldSeqs2 \cup FieldSeqs3}
    \cup UNION {{WithBlankLine(Object(fs), i) : i \in 1..(Len(fs) + 3)} : fs \in FieldSeqs2}
    \cup {SubSeq(Object(fs), 1, Len(fs) + 1) : fs \in FieldSeqs2}
    \cup {Object(fs) \o <<JUNK>> : fs \in FieldSeqs2}
    \cup {<<JUNK>> \o Object(fs) : fs \in FieldSeqs2}
    \cup {<<JUNK, BL>> \o Object(fs) : fs \in FieldSeqs2}
    \cup {<<>>, <<JUNK>>}

FewBodies == {<<>>, Object(<<NameTok.a, EmailTok.x>>), Object(<<EmailTok.y, NameTok.b, IdTok>>)}

Users == <<"POST", SP, SLASH, "users">>
UsersId(method, seg) == <<method, SP, SLASH, "users", SLASH>> \o seg

BodyTargets == {Users, UsersId("PUT", <<"1">>)}

IdSegments == {<<n>> : n \in IdNumerals} \cup {<<"abc">>, <<"99999999999">>, <<>>}

OtherTargets ==
    {UsersId(m, seg) : m \in {"PUT", "DELETE", "POST", "GET"}, seg \in IdSegments}
    \cup {<<m, SP, SLASH, "users">> : m \in {"PUT", "DELETE", "GET"}}
    \cup {<<m, SP, SLASH, "users", "X">> : m \in {"POST", "PUT"}}
    \cup {<<"POST", SP, SLASH, "user">>, <<BADBYTE>> \o Users}

Framed(target, headers, body) == target \o Version \o headers \o <<BL>> \o body

Requests ==
    {Framed(t, <<>>, b) : t \in BodyTargets, b \in Bodies}
    \cup {Framed(t, <<>>, b) : t \in OtherTargets, b \in FewBodies}
    \cup {Framed(t, <<CRLF, PAD>>, b) : t \in BodyTargets, b \in FewBodies}
    \cup {t \o Version : t \in BodyTargets}
    \cup {UsersId(m, seg) : m \in {"PUT", "DELETE"}, seg \in IdSegments}
    \cup {<<>>}

(***************************************************************************)
(* The process.                                                            *)
(***************************************************************************)
NoResponse == [status |-> "", content |-> ""]
NoFx == [reads |-> 0, route |-> "none", panic |-> FALSE, returned |-> NoResponse,
         opens |-> 0, stmts |-> <<>>, affected |-> -1, writes |-> 0]
NoEnv == [read |-> TRUE, db |-> "up", write |-> TRUE]
Table == [exists |-> tableExists, rows |-> rows, nextId |-> nextId, assigned |-> assigned]

DbStates == {"up", "down", "failing"}

Init ==
    /\ pc = "start"
    /\ boots = 0
    /\ bound = FALSE
    /\ served = 0
    /\ tableExists = FALSE
    /\ rows = {}
    /\ nextId = 1
    /\ assigned = {}
    /\ sent = <<>>
    /\ env = NoEnv
    /\ response = NoResponse
    /\ fx = NoFx
    /\ pre = [exists |-> FALSE, rows |-> {}, nextId |-> 1, assigned |-> {}]

conn == <<sent, env, response, fx, pre>>
database == <<tableExists, rows, nextId, assigned>>

\* main without the return on Err: the listener is bound all the same.
SetDatabase_NoReturn(db) ==
    /\ pc = "start"
    /\ boots' = boots + 1
    /\ env' = [NoEnv EXCEPT !.db = db]
    /\ tableExists' = (tableExists \/ db = "up")
    /\ pc' = "bind"
    /\ UNCHANGED <<bound, served, rows, nextId, assigned, sent, response, fx, pre>>

\* main, lines 28-31, with set_database: the connection is opened and
\* CREATE TABLE IF NOT EXISTS is sent; main returns when either fails.
SetDatabase(db) ==
    /\ pc = "start"
    /\ boots' = boots + 1
    /\ env' = [NoEnv EXCEPT !.db = db]
    /\ IF db = "up"
       THEN tableExists' = TRUE /\ pc' = "bind"
       ELSE tableExists' = tableExists /\ pc' = "exited"
    /\ UNCHANGED <<bound, served, rows, nextId, assigned, sent, response, fx, pre>>

\* main, line 33: TcpListener::bind(..).unwrap()
Bind(ok) ==
    /\ pc = "bind"
    /\ bound' = ok
    /\ pc' = IF ok THEN "accept" ELSE "panicked"
    /\ pre' = Table
    /\ UNCHANGED <<boots, served, database, sent, env, response, fx>>

\* main, lines 37-41: the next connection of listener.incoming().
Accept(bytes) ==
    /\ pc = "accept"
    /\ sent' = bytes
    /\ pc' = "handle"
    /\ UNCHANGED <<boots, bound, served, database, env, response, fx, pre>>

\* main, lines 42-44: incoming() gives an error, which is printed.
AcceptError ==
    /\ pc = "accept"
    /\ UNCHANGED vars

\* handle_client, lines 49-72, in the environment e: whether the read
\* succeeds, the state of the database, whether the write succeeds.
HandleClient(e) ==
    /\ pc = "handle"
    /\ env' = e
    /\ served' = 1
    /\ pre' = Table
    /\ IF ~e.read
       THEN /\ fx' = [NoFx EXCEPT !.reads = 1]
            /\ response' = NoResponse
            /\ pc' = "handled"
            /\ UNCHANGED <<rows, nextId, assigned>>
       ELSE \E request \in {RequestText(sent)} :
            \E did \in {Dispatch(request, [rows |-> rows, nextId |-> nextId, state |-> e.db])} :
                /\ did.nextId <= MaxId + 1
                /\ rows' = did.rows
                /\ nextId' = did.nextId
                /\ assigned' = assigned \cup (nextId..(did.nextId - 1))
                /\ fx' = [reads |-> 1, route |-> Route(request), panic |-> did.panic,
                          returned |-> [status |-> did.status, content |-> did.content],
                          opens |-> did.opens, stmts |-> did.stmts,
                          affected |-> did.affected,
                          writes |-> IF did.panic THEN 0 ELSE 1]
                /\ response' = IF ~did.panic /\ e.write
                               THEN [status |-> did.status, content |-> did.content]
                               ELSE NoResponse
                /\ pc' = IF ~did.panic /\ e.write THEN "handled" ELSE "panicked"
    /\ UNCHANGED <<boots, bound, tableExists, sent>>

\* handle_client returns: the stream is dropped and the loop goes on.
Close ==
    /\ pc = "handled"
    /\ pc' = "accept"
    /\ sent' = <<>>
    /\ env' = NoEnv
    /\ response' = NoResponse
    /\ fx' = NoFx
    /\ pre' = Table
    /\ UNCHANGED <<boots, bound, served, database>>

\* The process has ended and is started again; the database lives on.
Restart ==
    /\ pc \in {"exited", "panicked"}
    /\ pc' = "start"
    /\ boots' = 0
    /\ bound' = FALSE
    /\ served' = 0
    /\ sent' = <<>>
    /\ env' = NoEnv
    /\ response' = NoResponse
    /\ fx' = NoFx
    /\ pre' = Table
    /\ UNCHANGED database

\* When the read fails, nothing else of the environment is looked at.
Envs ==
    [read : {TRUE}, db : DbStates, write : BOOLEAN]
    \cup {[read |-> FALSE, db |-> "up", write |-> TRUE]}

Next ==
    \/ \E db \in DbStates : SetDatabase(db)
    \/ \E ok \in BOOLEAN : Bind(ok)
    \/ \E bytes \in Requests : Accept(bytes)
    \/ AcceptError
    \/ \E e \in Envs : HandleClient(e)
    \/ Close
    \/ Restart

Spec == Init /\ [][Next]_vars

(***************************************************************************)
(* Vocabulary of the claims.                                               *)
(***************************************************************************)
\* handle_client has run for the current connection.
Handled == pc \in {"handled", "panicked"} /\ fx.reads = 1

\* ... and its read, its database and its write all worked.
HandledCleanly == Handled /\ env.read /\ env.db = "up" /\ env.write

Created == [status |-> OK_RESPONSE, content |-> "User created"]
Updated == [status |-> OK_RESPONSE, content |-> "User updated"]
Deleted == [status |-> OK_RESPONSE, content |-> "User deleted"]
UserNotFound == [status |-> NOT_FOUND, content |-> "User not found"]
NotFound == [status |-> NOT_FOUND, content |-> "404 Not Found"]
ServerError == [status |-> INTERNAL_SERVER_ERROR, content |-> "Error"]

\* The body of the request as the client framed it: what follows the
\* first blank line.
SentBody ==
    LET i == Find(sent, BL)
    IN  IF i = 0 THEN <<>> ELSE SubSeq(sent, i + 1, Len(sent))

\* The body read as JSON {name, email}; white space between its tokens,
\* blank lines too, means nothing in JSON.
SentUser == FromStrUser(SentBody)

\* The id in the path of the request, when the path segment is a 32-bit
\* integer.
PathId == ParseI32(get_id(sent))

RowOf(table, id) == {r \in table : r.id = id}

(***************************************************************************)
(* C1: a request that begins with POST /users and carries a well-formed    *)
(* JSON body {name, email}, with the database up, is answered 200 "User    *)
(* created" and leaves exactly one new row, under a fresh id, with the     *)
(* name and email of the body: whatever the white space in the body and    *)
(* however long the request.  (The code does not do this.)                 *)
(***************************************************************************)
C1_CreateStoresAnyWellFormedBody ==
    (HandledCleanly /\ StartsWith(sent, PostPrefix) /\ SentUser.ok)
    => /\ pc = "handled"
       /\ response = Created
       /\ pre.nextId \notin pre.assigned
       /\ rows = pre.rows \cup {[id |-> pre.nextId, name |-> SentUser.name,
                                 email |-> SentUser.email]}

(***************************************************************************)
(* C2: a PUT /users/<id> with a well-formed body overwrites name and email *)
(* of the row with that id and keeps the number of rows; when no row has   *)
(* the id it still answers 200 "User updated" and changes nothing.  (The   *)
(* code does not do this for every well-formed body: see C1.)              *)
(***************************************************************************)
C2_UpdateOverwritesInPlace ==
    (HandledCleanly /\ StartsWith(sent, PutPrefix) /\ PathId.ok /\ SentUser.ok)
    => /\ pc = "handled"
       /\ response = Updated
       /\ Cardinality(rows) = Cardinality(pre.rows)
       /\ IF PathId.id \in Ids(pre.rows)
          THEN rows = (pre.rows \ RowOf(pre.rows, PathId.id))
                      \cup {[id |-> PathId.id, name |-> SentUser.name,
                             email |-> SentUser.email]}
          ELSE rows = pre.rows

(***************************************************************************)
(* C3: with the database up, DELETE /users/<id> for an id in the table     *)
(* removes that one row and answers 200 "User deleted"; for an id not in   *)
(* the table (one deleted before, say) it answers 404 "User not found"     *)
(* and changes nothing; the delete handler answers "User not found"        *)
(* exactly when its statement affected no row; and an id that has left     *)
(* the table does not come back, so that the second of two identical       *)
(* deletes is one for an id not in the table.  (pre is the table as the    *)
(* handler found it; between two handler runs the table does not change.)  *)
(***************************************************************************)
DeleteAnswers ==
    (HandledCleanly /\ StartsWith(sent, DeletePrefix) /\ PathId.ok)
    => /\ pc = "handled"
       /\ fx.stmts = <<"DELETE">>
       /\ IF PathId.id \in Ids(pre.rows)
          THEN /\ response = Deleted
               /\ rows = pre.rows \ RowOf(pre.rows, PathId.id)
               /\ Cardinality(rows) = Cardinality(pre.rows) - 1
          ELSE /\ response = UserNotFound
               /\ rows = pre.rows
       /\ (response = UserNotFound <=> fx.affected = 0)
       /\ fx.affected = Cardinality(pre.rows) - Cardinality(rows)

NotFoundOnlyForNoRows ==
    (Handled /\ fx.route = "delete")
    => (fx.returned = UserNotFound <=> (fx.stmts = <<"DELETE">> /\ fx.affected = 0))

GoneStaysGone ==
    /\ \A id \in pre.assigned : id \notin Ids(pre.rows) => id \notin Ids(rows)
    /\ (~Handled => rows = pre.rows /\ assigned = pre.assigned)

C3_DeleteOnceThenNotFound == DeleteAnswers /\ NotFoundOnlyForNoRows /\ GoneStaysGone

\* A delete of an id that was deleted before has been answered.
C3_Witness ==
    /\ pc = "handled"
    /\ fx.stmts = <<"DELETE">>
    /\ PathId.ok
    /\ PathId.id \in pre.assigned \ Ids(pre.rows)
    /\ response = UserNotFound
    /\ pre.rows # {}

(***************************************************************************)
(* C4, as claimed: a request whose method and path are not POST /users,    *)
(* PUT /users/<num> or DELETE /users/<num> is answered 404 "404 Not Found" *)
(* and the table is not changed.  (The code does not do this.)             *)
(***************************************************************************)
Method == IF Len(sent) >= 1 THEN sent[1] ELSE ""
Path == IF Len(sent) >= 2 /\ sent[2] = SP THEN FirstWord(SubSeq(sent, 3, Len(sent))) ELSE <<>>
Numerals == IdNumerals \cup {"99999999999"}
IsUsersNum(path) ==
    Len(path) = 4 /\ SubSeq(path, 1, 3) = <<SLASH, "users", SLASH>> /\ path[4] \in Numerals
MatchesARoute ==
    \/ Method = "POST" /\ Path = <<SLASH, "users">>
    \/ Method \in {"PUT", "DELETE"} /\ IsUsersNum(Path)

C4_UnmatchedIsNotFound ==
    (Handled /\ env.read /\ env.write /\ ~MatchesARoute)
    => (pc = "handled" /\ response = NotFound /\ rows = pre.rows)

(***************************************************************************)
(* C4, amended: a request whose text, as read, begins with none of the     *)
(* literals "POST /users", "PUT /users/" and "DELETE /users/" is answered  *)
(* 404 "404 Not Found"; no handler runs, no connection to the database is  *)
(* opened and the table is not changed.                                    *)
(***************************************************************************)
C4_NoPrefixIsNotFound ==
    (/\ Handled /\ env.read /\ env.write
     /\ ~StartsWith(RequestText(sent), PostPrefix)
     /\ ~StartsWith(RequestText(sent), PutPrefix)
     /\ ~StartsWith(RequestText(sent), DeletePrefix))
    => /\ pc = "handled"
       /\ response = NotFound
       /\ fx.opens = 0
       /\ fx.stmts = <<>>
       /\ rows = pre.rows
       /\ nextId = pre.nextId

\* PUT /users, without the slash, has been answered over a table with rows.
C4_Witness ==
    /\ pc = "handled"
    /\ StartsWith(sent, <<"PUT", SP, SLASH, "users", SP>>)
    /\ response = NotFound
    /\ rows # {}

(***************************************************************************)
(* C5: a POST /users or PUT /users/<id> whose body is malformed (no JSON,  *)
(* empty or absent, or an object without name or without email) is         *)
(* answered 500 "Error", no statement is sent and the rows are as before.  *)
(* (The code does not do this for every malformed body: see C1.)           *)
(***************************************************************************)
C5_MalformedBodyChangesNothing ==
    (/\ pc = "handled" /\ env.read
     /\ (StartsWith(sent, PostPrefix) \/ StartsWith(sent, PutPrefix))
     /\ ~SentUser.ok)
    => (response = ServerError /\ fx.stmts = <<>> /\ rows = pre.rows)

(***************************************************************************)
(* C6: a PUT /users/<seg> or DELETE /users/<seg> whose id segment is no    *)
(* 32-bit integer is answered 500 "Error" and the database is not touched: *)
(* no connection is opened, no statement is sent.  (The code opens one.)   *)
(***************************************************************************)
C6_BadIdTouchesNoDatabase ==
    (/\ pc = "handled" /\ env.read /\ env.db = "up"
     /\ (StartsWith(sent, PutPrefix) \/ StartsWith(sent, DeletePrefix))
     /\ ~PathId.ok)
    => (response = ServerError /\ fx.opens = 0 /\ fx.stmts = <<>>)

(***************************************************************************)
(* C7: in the three handlers every failure (of the id parse, of the body   *)
(* parse, of opening the connection, of executing the statement) ends in   *)
(* the response 500 "Error" being written and the server going on to the   *)
(* next connection.  (A failing statement ends the process instead.)       *)
(***************************************************************************)
SomethingFailed ==
    \/ fx.route \in {"put", "delete"} /\ ~ParseI32(get_id(RequestText(sent))).ok
    \/ fx.route \in {"post", "put"} /\ ~get_user_request_body(RequestText(sent)).ok
    \/ env.db \in {"down", "failing"}

C7_EveryFailureIsA500 ==
    (Handled /\ env.read /\ env.write /\ fx.route # "none" /\ SomethingFailed)
    => (pc = "handled" /\ response = ServerError)

(***************************************************************************)
(* C8: in every run of the process set_database runs once, before the      *)
(* listener is bound; when it fails the process ends with no listener and  *)
(* no connection handled, and it succeeds exactly when the database takes  *)
(* the connection and the statement, whether or not the table is already   *)
(* there; connections are handled only in a run where it succeeded; and    *)
(* it leaves the rows, the sequence and a table that exists as they were.  *)
(***************************************************************************)
C8_BootstrapBeforeBind ==
    /\ boots <= 1
    /\ (pc = "start" => boots = 0 /\ ~bound /\ served = 0)
    /\ (pc \in {"bind", "exited"}
        => /\ boots = 1 /\ ~bound /\ served = 0
           /\ (pc = "bind" <=> env.db = "up")
           /\ rows = pre.rows /\ nextId = pre.nextId
           /\ tableExists = (pre.exists \/ pc = "bind"))
    /\ (bound => boots = 1 /\ tableExists)
    /\ (served > 0 \/ pc \in {"handle", "handled"} => bound)

\* Bootstrap has just succeeded against a table that was there, with rows.
C8_Witness == pc = "bind" /\ pre.exists /\ rows # {}

(***************************************************************************)
(* C9: for each connection there is one read, at most one handler call     *)
(* with at most one statement, and one write; a connection whose read      *)
(* succeeds (of zero bytes too, which is answered 404 "404 Not Found")     *)
(* has exactly one response written to it; one whose read fails has none,  *)
(* and the server goes on.  (A failing statement leaves a connection that  *)
(* was read without response: see C7.)                                     *)
(***************************************************************************)
C9_OneResponsePerConnection ==
    (Handled /\ env.write)
    => /\ fx.opens <= 1
       /\ Len(fx.stmts) <= 1
       /\ IF env.read
          THEN fx.writes = 1 /\ (sent = <<>> => fx.returned = NotFound)
          ELSE fx.writes = 0 /\ response = NoResponse /\ pc = "handled"

(***************************************************************************)
(* C10: handling a request leaves every row whose id is not the id of the  *)
(* request path as it was.  An update changes no id and adds or removes no *)
(* row, a delete takes away only rows with the path id, a create keeps     *)
(* every row and adds at most one, under the next id of the sequence,      *)
(* which no row has or ever had; an id member of the body counts for       *)
(* nothing.  Ids are unique.                                               *)
(***************************************************************************)
ReadPathId == ParseI32(get_id(RequestText(sent)))

C10_OtherRowsUntouched ==
    Handled
    => /\ \A r1 \in rows, r2 \in rows : r1.id = r2.id => r1 = r2
       /\ Ids(rows) \subseteq assigned
       /\ (fx.route \in {"put", "delete"}
           => /\ \A r \in pre.rows : (~ReadPathId.ok \/ r.id # ReadPathId.id) => r \in rows
              /\ \A r \in rows : (~ReadPathId.ok \/ r.id # ReadPathId.id) => r \in pre.rows
              /\ nextId = pre.nextId)
       /\ (fx.route = "put" => Ids(rows) = Ids(pre.rows))
       /\ (fx.route = "delete" => rows \subseteq pre.rows)
       /\ (fx.route = "post"
           => /\ pre.rows \subseteq rows
              /\ Cardinality(rows \ pre.rows) <= 1
              /\ \A r \in rows \ pre.rows :
                    r.id = pre.nextId /\ r.id \notin pre.assigned /\ r.id \notin Ids(pre.rows))
       /\ (fx.route = "none" => rows = pre.rows /\ nextId = pre.nextId)

\* An update whose body has an id member changed row 1 of two rows.
C10_Witness ==
    /\ pc = "handled"
    /\ response = Updated
    /\ \E i \in 1..Len(sent) : sent[i] = IdTok
    /\ Cardinality(pre.rows) = 2
    /\ rows # pre.rows

(***************************************************************************)
(* What the code does do where C1, C2 and C5 fail: their statements hold   *)
(* of the requests whose body has no blank line in it and that one read    *)
(* takes in whole.                                                         *)
(***************************************************************************)
PlainlyFramed == Find(SentBody, BL) = 0 /\ RequestText(sent) = sent

CreateStoresPlainBody == PlainlyFramed => C1_CreateStoresAnyWellFormedBody
UpdateOverwritesFromPlainBody == PlainlyFramed => C2_UpdateOverwritesInPlace
MalformedPlainBodyChangesNothing == PlainlyFramed => C5_MalformedBodyChangesNothing

\* Such a create, such an update of a row and of no row, such a refusal.
PlainCreateSeen == PlainlyFramed /\ HandledCleanly /\ response = Created
PlainUpdateSeen ==
    PlainlyFramed /\ response = Updated /\ rows # pre.rows /\ Cardinality(rows) = 2
PlainUpdateOfNoRowSeen ==
    PlainlyFramed /\ response = Updated /\ PathId.id \notin Ids(pre.rows) /\ rows # {}
PlainRefusalSeen ==
    /\ PlainlyFramed /\ pc = "handled" /\ response = ServerError /\ env.db = "up"
    /\ StartsWith(sent, PutPrefix) /\ PathId.ok /\ SentBody # <<>> /\ rows # {}

====
